---- MODULE Spec2Model ----
(***************************************************************************)
(* The three course projects of the repository, each a main() that        *)
(* initialises the logger, GLFW and GLAD, builds its meshes and shader,   *)
(* and runs a render loop:                                                 *)
(*   "Week3"      src/projects/Week3-Starter/src/main.cpp lines   1-219    *)
(*   "Obj"        src/projects/Week3-Starter/src/main.cpp lines 220-444    *)
(*   "Transforms" src/unnamed/part_000                lines  23-299        *)
(* The library calls (GLFW, GLAD, OpenGL) are the environment: their       *)
(* results are inputs drawn with \E.                                       *)
(***************************************************************************)
EXTENDS Integers, Sequences, FiniteSets, TLC

\* ---------------------------------------------------------------- bounds
\* Render-loop iterations explored per run.
MaxFrames == 2
\* Window extents a resize event may carry: 1..MaxDim, besides the initial one.
MaxDim == 2
\* Events of one kind delivered by one glfwPollEvents call.
MaxEvents == 2

\* ------------------------------------------------------ program constants
\* glm::ivec2 windowSize = glm::ivec2(800, 800)
InitialExtent == 800

Projects == {"Week3", "Obj", "Transforms"}

\* The objects each main() allocates (new / ::Create() / LoadFromFile).
Week3Objects ==
    {"interleaved_vbo", "interleaved_ibo", "vao2", "posVbo", "color_vbo",
     "vao", "shader"}

TransformsObjects ==
    {"posVbo", "color_vbo", "vao", "interleaved_vbo", "interleaved_ibo",
     "vao2", "interleaved_vbo1", "interleaved_ibo1", "vao3", "shader",
     "camera"}

ObjObjects == {"shader", "camera", "vao4"}

Objects == Week3Objects \cup TransformsObjects \cup ObjObjects

ObjectsOf(p) ==
    CASE p = "Week3" -> Week3Objects
      [] p = "Transforms" -> TransformsObjects
      [] OTHER -> ObjObjects

\* The OpenGL resource wrappers among them (buffers, vertex arrays, shaders).
GLObjects == Objects \ {"camera"}

Extents == {InitialExtent} \cup (1 .. MaxDim)

VARIABLES
    project,        \* which of the three main() functions runs
    pc,             \* position of main()
    exitCode,       \* main()'s return value, -1 while it runs
    log,            \* the calls main() has made before its render loop
    glfwInitResult, \* what glfwInit() reported: "uncalled", "GLFW_TRUE", "GLFW_FALSE"
    glfwRet,        \* what initGLFW() returned: "none", "true", "false"
    gladResult,     \* what gladLoadGLLoader returned: -1 (uncalled), 0, 1
    gladRet,        \* what initGLAD() returned: "none", "true", "false"
    window,         \* the global GLFWwindow*: "unset", "NULL" or a handle
    contextCurrent, \* the window whose context is current, "none" if none
    sizeCallback,   \* window -> its registered window-size callback
    windowSize,     \* the global windowSize, <<x, y>>
    viewport,       \* the OpenGL viewport <<x, y, w, h>>, <<>> before glViewport
    lastResize,     \* the last resize event delivered, <<>> if none
    heap,           \* object -> "none", "live", "deleted"
    deletes,        \* object -> number of times it was destroyed
    usedAfterDelete,\* an object was used after being destroyed
    vaoIndexBuffer, \* vertex array -> its index buffer, "none" without one
    frame,          \* the calls of the current loop iteration
    frames,         \* completed loop iterations
    boundVao,       \* the vertex array currently bound, "none" if none
    boundShader,    \* the shader currently bound
    uniformMVP,     \* the value of u_ModelViewProjection last uploaded
    transforms,     \* transform name -> frame stamp of its last update
    shouldClose,    \* the window's close flag
    spaceKey,       \* the cached state of GLFW_KEY_SPACE
    polled,         \* events delivered by the running glfwPollEvents, per kind
    isButtonPressed,\* Obj project: the local flag
    camera          \* the camera: [ortho, orthoScale, position]

vars ==
    <<project, pc, exitCode, log, glfwInitResult, glfwRet, gladResult,
      gladRet, window, contextCurrent, sizeCallback, windowSize, viewport,
      lastResize, heap, deletes, usedAfterDelete, vaoIndexBuffer, frame,
      frames, boundVao, boundShader, uniformMVP, transforms, shouldClose,
      spaceKey, polled, isButtonPressed, camera>>

startupVars ==
    <<glfwInitResult, glfwRet, gladResult, gladRet, window, contextCurrent,
      sizeCallback>>

windowVars == <<windowSize, viewport, lastResize>>

heapVars == <<heap, deletes, usedAfterDelete, vaoIndexBuffer>>

glVars == <<boundVao, boundShader, uniformMVP>>

inputVars == <<shouldClose, spaceKey, polled>>

sceneVars == <<transforms, isButtonPressed, camera>>

TransformNames == {"transform", "transform2", "transform3"}

\* Camera::Create(): a perspective camera at the origin.
CameraDefault == [ortho |-> FALSE, orthoScale |-> "default", position |-> <<0, 0, 0>>]

Init ==
    /\ project \in Projects
    /\ pc = "start"
    /\ exitCode = -1
    /\ log = <<>>
    /\ glfwInitResult = "uncalled"
    /\ glfwRet = "none"
    /\ gladResult = -1
    /\ gladRet = "none"
    /\ window = "unset"
    /\ contextCurrent = "none"
    /\ sizeCallback = [w \in {"W1"} |-> "none"]
    /\ windowSize = <<InitialExtent, InitialExtent>>
    /\ viewport = <<>>
    /\ lastResize = <<>>
    /\ heap = [o \in Objects |-> "none"]
    /\ deletes = [o \in Objects |-> 0]
    /\ usedAfterDelete = FALSE
    /\ vaoIndexBuffer = [v \in {"vao", "vao2", "vao3", "vao4"} |-> "none"]
    /\ frame = <<>>
    /\ frames = 0
    /\ boundVao = "none"
    /\ boundShader = "none"
    /\ uniformMVP = <<>>
    /\ transforms = [t \in TransformNames |-> 0]
    /\ shouldClose = FALSE
    /\ spaceKey = FALSE
    /\ polled = [k \in {"resize", "key", "close"} |-> 0]
    /\ isButtonPressed = FALSE
    /\ camera = CameraDefault

\* ------------------------------------------------------------- start-up

\* main(): Logger::Init()
LoggerInit ==
    /\ pc = "start"
    /\ log' = Append(log, "Logger::Init")
    /\ pc' = "initGLFW"
    /\ UNCHANGED <<project, exitCode, startupVars, windowVars, heapVars, frame,
                   frames, glVars, inputVars, sceneVars>>

\* initGLFW(): glfwInit(), and on success glfwCreateWindow, glfwMakeContextCurrent
\* and glfwSetWindowSizeCallback, none of whose results is tested.
\*   ok      what glfwInit() reports
\*   created what glfwCreateWindow returns: a handle, or NULL on failure
\*   ub      the outcome of glfwSetWindowSizeCallback(NULL, ...), which is
\*           undefined: the process dies, or the call returns having done nothing
initGLFW ==
    /\ pc = "initGLFW"
    /\ \E ok \in BOOLEAN, created \in {"W1", "NULL"}, ub \in {"crash", "return"} :
        /\ log' = Append(log, "initGLFW")
        /\ IF ~ok
             THEN /\ glfwInitResult' = "GLFW_FALSE"
                  /\ glfwRet' = "false"
                  /\ pc' = "checkGLFW"
                  /\ UNCHANGED <<window, contextCurrent, sizeCallback>>
             ELSE /\ glfwInitResult' = "GLFW_TRUE"
                  /\ window' = created
                  /\ contextCurrent' = IF created = "NULL" THEN "none" ELSE created
                  /\ IF created # "NULL"
                       THEN /\ sizeCallback' =
                                 [sizeCallback EXCEPT ![created] = "GlfwWindowResizedCallback"]
                            /\ glfwRet' = "true"
                            /\ pc' = "checkGLFW"
                       ELSE /\ UNCHANGED sizeCallback
                            /\ IF ub = "crash"
                                 THEN /\ pc' = "crashed"
                                      /\ UNCHANGED glfwRet
                                 ELSE /\ glfwRet' = "true"
                                      /\ pc' = "checkGLFW"
    /\ UNCHANGED <<project, exitCode, gladResult, gladRet, windowVars, heapVars,
                   frame, frames, glVars, inputVars, sceneVars>>

\* main() without its test of initGLFW()'s result.
MainCheckGLFW_Unchecked ==
    /\ pc = "checkGLFW"
    /\ pc' = "initGLAD"
    /\ UNCHANGED <<project, exitCode, log, startupVars, windowVars, heapVars,
                   frame, frames, glVars, inputVars, sceneVars>>

\* main(): if (!initGLFW()) return 1;
MainCheckGLFW ==
    /\ pc = "checkGLFW"
    /\ IF glfwRet = "false"
         THEN pc' = "done" /\ exitCode' = 1
         ELSE pc' = "initGLAD" /\ UNCHANGED exitCode
    /\ UNCHANGED <<project, log, startupVars, windowVars, heapVars, frame,
                   frames, glVars, inputVars, sceneVars>>

\* initGLAD(): gladLoadGLLoader((GLADloadproc)glfwGetProcAddress).
\* glfwGetProcAddress needs a current context: without one every lookup
\* fails and the loader returns 0.
initGLAD ==
    /\ pc = "initGLAD"
    /\ \E loaded \in (IF contextCurrent = "none" THEN {0} ELSE {0, 1}) :
        /\ gladResult' = loaded
        /\ gladRet' = IF loaded = 0 THEN "false" ELSE "true"
    /\ log' = Append(log, "initGLAD")
    /\ pc' = "checkGLAD"
    /\ UNCHANGED <<project, exitCode, glfwInitResult, glfwRet, window,
                   contextCurrent, sizeCallback, windowVars, heapVars, frame,
                   frames, glVars, inputVars, sceneVars>>

\* main() without its test of initGLAD()'s result.
MainCheckGLAD_Unchecked ==
    /\ pc = "checkGLAD"
    /\ pc' = "debugSetup"
    /\ UNCHANGED <<project, exitCode, log, startupVars, windowVars, heapVars,
                   frame, frames, glVars, inputVars, sceneVars>>

\* main(): if (!initGLAD()) return 1;
MainCheckGLAD ==
    /\ pc = "checkGLAD"
    /\ IF gladRet = "false"
         THEN pc' = "done" /\ exitCode' = 1
         ELSE pc' = "debugSetup" /\ UNCHANGED exitCode
    /\ UNCHANGED <<project, log, startupVars, windowVars, heapVars, frame,
                   frames, glVars, inputVars, sceneVars>>

\* main(): glEnable(GL_DEBUG_OUTPUT) [, glEnable(GL_DEBUG_OUTPUT_SYNCHRONOUS)],
\* glDebugMessageCallback(GlDebugMessage, nullptr)
DebugSetup ==
    /\ pc = "debugSetup"
    /\ log' = log \o
         (IF project = "Week3"
            THEN <<"glEnable", "glDebugMessageCallback">>
            ELSE <<"glEnable", "glEnable", "glDebugMessageCallback">>)
    /\ pc' = "resources"
    /\ UNCHANGED <<project, exitCode, startupVars, windowVars, heapVars, frame,
                   frames, glVars, inputVars, sceneVars>>

\* ------------------------------------------------- resources of each main()

\* new T() / T::Create(): the objects become live.
Allocate(h, objs) == [o \in Objects |-> IF o \in objs THEN "live" ELSE h[o]]

\* delete p, for each p of objs in turn.
Delete(h, objs) == [o \in Objects |-> IF o \in objs THEN "deleted" ELSE h[o]]

CountDeletes(d, objs) == [o \in Objects |-> IF o \in objs THEN d[o] + 1 ELSE d[o]]

AnyDeleted(objs) == \E o \in objs : heap[o] = "deleted"

\* Camera::SetPosition
CameraSetPosition(c, p) == [c EXCEPT !.position = p]

\* Camera::SetOrthoEnabled
CameraSetOrthoEnabled(c, b) == [c EXCEPT !.ortho = b]

\* Camera::SetOrthoVerticalScale
CameraSetOrthoVerticalScale(c, s) == [c EXCEPT !.orthoScale = s]

\* Camera::GetViewProjection: a function of the camera's whole state.
CameraGetViewProjection(c) == <<c.ortho, c.orthoScale, c.position>>

\* VertexArrayObject::Bind: glBindVertexArray(handle)
VaoBind(v) == v

\* VertexArrayObject::Unbind: glBindVertexArray(0)
VaoUnbind == "none"

\* Week3 main(), from "new VertexBuffer()" to "glfwGetTime()" before the loop.
CreateResourcesWeek3 ==
    /\ pc = "resources"
    /\ project = "Week3"
    /\ heap' = Allocate(heap, Week3Objects)
    /\ vaoIndexBuffer' = [vaoIndexBuffer EXCEPT !["vao2"] = "interleaved_ibo"]
    /\ log' = log \o
         <<"new VertexBuffer", "VertexBuffer::LoadData",
           "new IndexBuffer", "IndexBuffer::LoadData",
           "new VertexArrayObject", "VertexArrayObject::AddVertexBuffer",
           "VertexArrayObject::SetIndexBuffer",
           "new VertexBuffer", "VertexBuffer::LoadData",
           "new VertexBuffer", "VertexBuffer::LoadData",
           "new VertexArrayObject", "VertexArrayObject::AddVertexBuffer",
           "VertexArrayObject::AddVertexBuffer",
           "new Shader", "Shader::LoadShaderPartFromFile",
           "Shader::LoadShaderPartFromFile", "Shader::Link",
           "glEnable", "glPolygonMode", "glfwGetTime">>
    /\ pc' = "loop"
    /\ UNCHANGED <<project, exitCode, startupVars, windowVars, deletes,
                   usedAfterDelete, frame, frames, glVars, inputVars, sceneVars>>

\* Transforms main(), from "VertexBuffer::Create()" to "glfwGetTime()".
CreateResourcesTransforms ==
    /\ pc = "resources"
    /\ project = "Transforms"
    /\ heap' = Allocate(heap, TransformsObjects)
    /\ vaoIndexBuffer' = [vaoIndexBuffer EXCEPT !["vao2"] = "interleaved_ibo",
                                                 !["vao3"] = "interleaved_ibo1"]
    /\ log' = log \o
         <<"VertexBuffer::Create", "VertexBuffer::LoadData",
           "VertexBuffer::Create", "VertexBuffer::LoadData",
           "VertexArrayObject::Create", "VertexArrayObject::AddVertexBuffer",
           "VertexArrayObject::AddVertexBuffer",
           "VertexBuffer::Create", "VertexBuffer::LoadData",
           "IndexBuffer::Create", "IndexBuffer::LoadData",
           "VertexArrayObject::Create", "VertexArrayObject::AddVertexBuffer",
           "VertexArrayObject::SetIndexBuffer",
           "VertexBuffer::Create", "VertexBuffer::LoadData",
           "IndexBuffer::Create", "IndexBuffer::LoadData",
           "VertexArrayObject::Create", "VertexArrayObject::AddVertexBuffer",
           "VertexArrayObject::SetIndexBuffer",
           "Shader::Create", "Shader::LoadShaderPartFromFile",
           "Shader::LoadShaderPartFromFile", "Shader::Link",
           "glEnable", "glPolygonMode",
           "Camera::Create", "Camera::SetPosition", "Camera::LookAt",
           "glfwGetTime">>
    /\ camera' = CameraSetPosition(CameraDefault, <<0, 1, 1>>)
    /\ pc' = "loop"
    /\ UNCHANGED <<project, exitCode, startupVars, windowVars, deletes,
                   usedAfterDelete, frame, frames, glVars, inputVars,
                   transforms, isButtonPressed>>

\* Obj main(), from "new Shader()" to "bool isButtonPressed = false".
CreateResourcesObj ==
    /\ pc = "resources"
    /\ project = "Obj"
    /\ heap' = Allocate(heap, ObjObjects)
    /\ log' = log \o
         <<"new Shader", "Shader::LoadShaderPartFromFile",
           "Shader::LoadShaderPartFromFile", "Shader::Link",
           "glEnable", "glEnable", "glCullFace", "glClearColor",
           "Camera::Create", "Camera::SetPosition", "Camera::LookAt",
           "glfwGetTime", "ObjLoader::LoadFromFile">>
    /\ camera' = CameraSetPosition(CameraDefault, <<0, 15, 15>>)
    /\ isButtonPressed' = FALSE
    /\ pc' = "loop"
    /\ UNCHANGED <<project, exitCode, startupVars, windowVars, deletes,
                   usedAfterDelete, vaoIndexBuffer, frame, frames, glVars,
                   inputVars, transforms>>

\* ---------------------------------------------------------- render loop

\* while (!glfwWindowShouldClose(window))
LoopTest ==
    /\ pc = "loop"
    /\ IF shouldClose
         THEN pc' = "cleanup" /\ UNCHANGED frame
         ELSE /\ frames < MaxFrames
              /\ pc' = "poll"
              /\ frame' = <<>>
    /\ UNCHANGED <<project, exitCode, log, startupVars, windowVars, heapVars,
                   frames, glVars, inputVars, sceneVars>>

\* glfwPollEvents() is entered: it delivers the pending events, then returns.
PollEvents ==
    /\ pc = "poll"
    /\ frame' = Append(frame, <<"glfwPollEvents">>)
    /\ polled' = [k \in DOMAIN polled |-> 0]
    /\ pc' = "polling"
    /\ UNCHANGED <<project, exitCode, log, startupVars, windowVars, heapVars,
                   frames, glVars, shouldClose, spaceKey, sceneVars>>

\* The callback with width and height exchanged in the stored size.
GlfwWindowResizedCallback_Swapped(width, height) ==
    /\ viewport' = <<0, 0, width, height>>
    /\ windowSize' = <<height, width>>

\* GlfwWindowResizedCallback(window, width, height), called by GLFW for a
\* resize event of a window it is registered on.
GlfwWindowResizedCallback(width, height) ==
    /\ viewport' = <<0, 0, width, height>>
    /\ windowSize' = <<width, height>>

ResizeEvent ==
    /\ pc = "polling"
    /\ window \in DOMAIN sizeCallback
    /\ sizeCallback[window] = "GlfwWindowResizedCallback"
    /\ polled["resize"] < MaxEvents
    /\ \E width \in Extents, height \in Extents :
        /\ GlfwWindowResizedCallback(width, height)
        /\ lastResize' = <<width, height>>
        /\ frame' = Append(frame, <<"glViewport">>)
    /\ polled' = [polled EXCEPT !["resize"] = @ + 1]
    /\ UNCHANGED <<project, pc, exitCode, log, startupVars, heapVars, frames,
                   glVars, shouldClose, spaceKey, sceneVars>>

\* A key event for GLFW_KEY_SPACE: GLFW updates the state glfwGetKey reports.
SpaceKeyEvent ==
    /\ pc = "polling"
    /\ polled["key"] < MaxEvents
    /\ spaceKey' = ~spaceKey
    /\ polled' = [polled EXCEPT !["key"] = @ + 1]
    /\ UNCHANGED <<project, pc, exitCode, log, startupVars, windowVars,
                   heapVars, frame, frames, glVars, shouldClose, sceneVars>>

\* The user closes the window: GLFW sets its close flag.
CloseEvent ==
    /\ pc = "polling"
    /\ polled["close"] < MaxEvents
    /\ ~shouldClose
    /\ shouldClose' = TRUE
    /\ polled' = [polled EXCEPT !["close"] = @ + 1]
    /\ UNCHANGED <<project, pc, exitCode, log, startupVars, windowVars,
                   heapVars, frame, frames, glVars, spaceKey, sceneVars>>

\* glfwPollEvents() returns.
PollReturn ==
    /\ pc = "polling"
    /\ pc' = IF project = "Obj" THEN "input" ELSE "update"
    /\ UNCHANGED <<project, exitCode, log, startupVars, windowVars, heapVars,
                   frame, frames, glVars, inputVars, sceneVars>>

\* The input handling whose second branch forgets to clear isButtonPressed.
HandleInput_FlagKept ==
    /\ pc = "input"
    /\ project = "Obj"
    /\ IF spaceKey /\ isButtonPressed = FALSE
         THEN /\ isButtonPressed' = TRUE
              /\ camera' = CameraSetOrthoVerticalScale(
                               CameraSetOrthoEnabled(camera, TRUE), "-20.0f")
         ELSE IF spaceKey /\ isButtonPressed = TRUE
                THEN /\ UNCHANGED isButtonPressed
                     /\ camera' = CameraSetPosition(
                                      CameraSetOrthoEnabled(camera, FALSE),
                                      <<0, 15, 15>>)
                ELSE UNCHANGED <<isButtonPressed, camera>>
    /\ pc' = "update"
    /\ UNCHANGED <<project, exitCode, log, startupVars, windowVars, heapVars,
                   frame, frames, glVars, inputVars, transforms>>

\* Obj main(): the WEEK 5 input handling,
\*   if (glfwGetKey(window, GLFW_KEY_SPACE) && isButtonPressed == false) ...
\*   else if (glfwGetKey(window, GLFW_KEY_SPACE) && isButtonPressed == true) ...
HandleInput ==
    /\ pc = "input"
    /\ project = "Obj"
    /\ IF spaceKey /\ isButtonPressed = FALSE
         THEN /\ isButtonPressed' = TRUE
              /\ camera' = CameraSetOrthoVerticalScale(
                               CameraSetOrthoEnabled(camera, TRUE), "-20.0f")
         ELSE IF spaceKey /\ isButtonPressed = TRUE
                THEN /\ isButtonPressed' = FALSE
                     /\ camera' = CameraSetPosition(
                                      CameraSetOrthoEnabled(camera, FALSE),
                                      <<0, 15, 15>>)
                ELSE UNCHANGED <<isButtonPressed, camera>>
    /\ pc' = "update"
    /\ UNCHANGED <<project, exitCode, log, startupVars, windowVars, heapVars,
                   frame, frames, glVars, inputVars, transforms>>

\* thisFrame = glfwGetTime(), dt, and the transforms computed from thisFrame.
\* A transform is modelled by the iteration whose time it was computed from.
\* Obj: isRotating is never cleared, so transform is recomputed every frame.
UpdateTransforms ==
    /\ pc = "update"
    /\ transforms' =
         CASE project = "Week3" -> transforms
           [] project = "Transforms" -> [t \in TransformNames |-> frames + 1]
           [] OTHER -> [transforms EXCEPT !["transform"] = frames + 1,
                                          !["transform2"] = frames + 1]
    /\ frame' = Append(frame, <<"glfwGetTime">>)
    /\ pc' = "clear"
    /\ UNCHANGED <<project, exitCode, log, startupVars, windowVars, heapVars,
                   frames, glVars, inputVars, isButtonPressed, camera>>

\* [glClearColor(...);] glClear(GL_COLOR_BUFFER_BIT | GL_DEPTH_BUFFER_BIT)
Clear ==
    /\ pc = "clear"
    /\ frame' = frame \o
         (IF project = "Obj"
            THEN <<<<"glClear", "color|depth">>>>
            ELSE <<<<"glClearColor">>, <<"glClear", "color|depth">>>>)
    /\ pc' = "bindShader"
    /\ UNCHANGED <<project, exitCode, log, startupVars, windowVars, heapVars,
                   frames, glVars, inputVars, sceneVars>>

\* shader->Bind()
BindShader ==
    /\ pc = "bindShader"
    /\ frame' = Append(frame, <<"Shader::Bind", "shader">>)
    /\ boundShader' = "shader"
    /\ usedAfterDelete' = (usedAfterDelete \/ AnyDeleted({"shader"}))
    /\ pc' = "draw"
    /\ UNCHANGED <<project, exitCode, log, startupVars, windowVars, heap,
                   deletes, vaoIndexBuffer, frames, boundVao, uniformMVP,
                   inputVars, sceneVars>>

\* Shader::SetUniformMatrix("u_ModelViewProjection", vp * model): the uploaded
\* value, the camera's view-projection and the transform it was multiplied by.
MVP(c, t) == <<CameraGetViewProjection(c), t, transforms[t]>>

\* A draw call as OpenGL sees it: the entry point, the index buffer whose count
\* and type it was given, and the vertex array and uniform in effect.
DrawCall(fn, ibo, bound, mvp) == <<"draw", fn, ibo, bound, mvp>>

\* VertexArrayObject::Draw(): binds the vertex array, draws it, unbinds.
VaoDraw(v, mvp) ==
    <<<<"VertexArrayObject::Bind", v>>,
      DrawCall("VertexArrayObject::Draw", vaoIndexBuffer[v], VaoBind(v), mvp),
      <<"VertexArrayObject::Unbind">>>>

\* Week3 main(): vao->Bind(); glDrawArrays; vao2->Bind(); glDrawElements
DrawWeek3 ==
    /\ pc = "draw"
    /\ project = "Week3"
    /\ frame' = frame \o
         <<<<"VertexArrayObject::Bind", "vao">>,
           DrawCall("glDrawArrays", "none", VaoBind("vao"), uniformMVP),
           <<"VertexArrayObject::Bind", "vao2">>,
           DrawCall("glDrawElements", "interleaved_ibo", VaoBind("vao2"), uniformMVP)>>
    /\ boundVao' = VaoBind("vao2")
    /\ usedAfterDelete' =
         (usedAfterDelete \/ AnyDeleted({"vao", "vao2", "interleaved_ibo"}))
    /\ pc' = "unbind"
    /\ UNCHANGED <<project, exitCode, log, startupVars, windowVars, heap,
                   deletes, vaoIndexBuffer, frames, boundShader, uniformMVP,
                   inputVars, sceneVars>>

\* Transforms main(): for each of the three meshes SetUniformMatrix, Bind,
\* draw; vao and vao2 are unbound after their draw.
DrawTransforms ==
    /\ pc = "draw"
    /\ project = "Transforms"
    /\ LET m1 == MVP(camera, "transform")
           m2 == MVP(camera, "transform2")
           m3 == MVP(camera, "transform3")
       IN  /\ frame' = frame \o
                <<<<"Shader::SetUniformMatrix", "transform">>,
                  <<"VertexArrayObject::Bind", "vao">>,
                  DrawCall("glDrawArrays", "none", VaoBind("vao"), m1),
                  <<"VertexArrayObject::Unbind">>,
                  <<"Shader::SetUniformMatrix", "transform2">>,
                  <<"VertexArrayObject::Bind", "vao2">>,
                  DrawCall("glDrawElements", "interleaved_ibo", VaoBind("vao2"), m2),
                  <<"VertexArrayObject::Unbind">>,
                  <<"Shader::SetUniformMatrix", "transform3">>,
                  <<"VertexArrayObject::Bind", "vao3">>,
                  DrawCall("glDrawElements", "interleaved_ibo1", VaoBind("vao3"), m3)>>
           /\ uniformMVP' = m3
    /\ boundVao' = VaoBind("vao3")
    /\ usedAfterDelete' =
         (usedAfterDelete \/
            AnyDeleted({"shader", "camera", "vao", "vao2", "vao3",
                        "interleaved_ibo", "interleaved_ibo1"}))
    /\ pc' = "unbind"
    /\ UNCHANGED <<project, exitCode, log, startupVars, windowVars, heap,
                   deletes, vaoIndexBuffer, frames, boundShader, inputVars,
                   sceneVars>>

\* Obj main(): SetUniformMatrix(vp * transform); vao4->Draw();
\*             SetUniformMatrix(vp * transform2); vao4->Draw();
DrawObj ==
    /\ pc = "draw"
    /\ project = "Obj"
    /\ LET m1 == MVP(camera, "transform")
           m2 == MVP(camera, "transform2")
       IN  /\ frame' = frame \o
                <<<<"Shader::SetUniformMatrix", "transform">>>> \o
                VaoDraw("vao4", m1) \o
                <<<<"Shader::SetUniformMatrix", "transform2">>>> \o
                VaoDraw("vao4", m2)
           /\ uniformMVP' = m2
    /\ boundVao' = VaoUnbind
    /\ usedAfterDelete' =
         (usedAfterDelete \/ AnyDeleted({"shader", "camera", "vao4"}))
    /\ pc' = "unbind"
    /\ UNCHANGED <<project, exitCode, log, startupVars, windowVars, heap,
                   deletes, vaoIndexBuffer, frames, boundShader, inputVars,
                   sceneVars>>

\* The loop without its VertexArrayObject::Unbind() before the swap.
UnbindVao_Skipped ==
    /\ pc = "unbind"
    /\ pc' = "swap"
    /\ UNCHANGED <<project, exitCode, log, startupVars, windowVars, heapVars,
                   frame, frames, glVars, inputVars, sceneVars>>

\* VertexArrayObject::Unbind()
UnbindVao ==
    /\ pc = "unbind"
    /\ frame' = Append(frame, <<"VertexArrayObject::Unbind">>)
    /\ boundVao' = VaoUnbind
    /\ pc' = "swap"
    /\ UNCHANGED <<project, exitCode, log, startupVars, windowVars, heapVars,
                   frames, boundShader, uniformMVP, inputVars, sceneVars>>

\* glfwSwapBuffers(window): the entry records the vertex array bound at the call.
SwapBuffers ==
    /\ pc = "swap"
    /\ frame' = Append(frame, <<"glfwSwapBuffers", window, boundVao>>)
    /\ frames' = frames + 1
    /\ pc' = "loop"
    /\ UNCHANGED <<project, exitCode, log, startupVars, windowVars, heapVars,
                   glVars, inputVars, sceneVars>>

\* ------------------------------------------------------------ after the loop

\* The objects main() deletes after its loop. Week3: delete shader; delete vao;
\* delete posVbo; delete color_vbo. Transforms and Obj hold theirs in
\* shared pointers and delete nothing by hand.
Deleted(p) ==
    IF p = "Week3" THEN {"shader", "vao", "posVbo", "color_vbo"} ELSE {}

\* The shared pointers that go out of scope when main() returns.
Released(p) == IF p = "Week3" THEN {} ELSE ObjectsOf(p)

Cleanup ==
    /\ pc = "cleanup"
    /\ heap' = Delete(heap, Deleted(project))
    /\ deletes' = CountDeletes(deletes, Deleted(project))
    /\ usedAfterDelete' = (usedAfterDelete \/ AnyDeleted(Deleted(project)))
    /\ pc' = "uninit"
    /\ UNCHANGED <<project, exitCode, log, startupVars, windowVars,
                   vaoIndexBuffer, frame, frames, glVars, inputVars, sceneVars>>

\* Logger::Uninitialize(); return 0;
MainReturn ==
    /\ pc = "uninit"
    /\ heap' = Delete(heap, Released(project))
    /\ deletes' = CountDeletes(deletes, Released(project))
    /\ exitCode' = 0
    /\ pc' = "done"
    /\ UNCHANGED <<project, log, startupVars, windowVars, usedAfterDelete,
                   vaoIndexBuffer, frame, frames, glVars, inputVars, sceneVars>>

Next ==
    \/ LoggerInit
    \/ initGLFW
    \/ MainCheckGLFW
    \/ initGLAD
    \/ MainCheckGLAD
    \/ DebugSetup
    \/ CreateResourcesWeek3
    \/ CreateResourcesTransforms
    \/ CreateResourcesObj
    \/ LoopTest
    \/ PollEvents
    \/ ResizeEvent
    \/ SpaceKeyEvent
    \/ CloseEvent
    \/ PollReturn
    \/ HandleInput
    \/ UpdateTransforms
    \/ Clear
    \/ BindShader
    \/ DrawWeek3
    \/ DrawTransforms
    \/ DrawObj
    \/ UnbindVao
    \/ SwapBuffers
    \/ Cleanup
    \/ MainReturn

Spec == Init /\ [][Next]_vars

\* ================================================================ claims

\* The calls of main() that are not OpenGL calls and create no OpenGL object.
NonGLCalls ==
    {"Logger::Init", "initGLFW", "initGLAD", "glfwGetTime", "Camera::Create",
     "Camera::SetPosition", "Camera::LookAt"}

\* The entries of a loop iteration that reach OpenGL.
FrameGLOps ==
    {"glViewport", "glClearColor", "glClear", "Shader::Bind",
     "Shader::SetUniformMatrix", "VertexArrayObject::Bind", "draw",
     "VertexArrayObject::Unbind"}

\* The positions of the entries of f made by operation op.
Idx(f, op) == {i \in 1 .. Len(f) : f[i][1] = op}

\* C1: in every main() the first call is Logger::Init(), the second
\* initGLFW(), the third initGLAD(), and every OpenGL call, before or inside
\* the render loop, comes after both initGLFW() and initGLAD() returned true.
C1_StartupOrder ==
    /\ Len(log) >= 1 => log[1] = "Logger::Init"
    /\ Len(log) >= 2 => log[2] = "initGLFW"
    /\ Len(log) >= 3 => log[3] = "initGLAD"
    /\ \A i \in 1 .. Len(log) :
         log[i] \notin NonGLCalls =>
           i > 3 /\ glfwRet = "true" /\ gladRet = "true"
    /\ (\E i \in 1 .. Len(frame) : frame[i][1] \in FrameGLOps) =>
         Len(log) > 3 /\ glfwRet = "true" /\ gladRet = "true"

\* C1 witness: a render loop iteration has issued its draw calls after start-up.
C1_Witness ==
    /\ frames = 1
    /\ Idx(frame, "draw") # {}
    /\ \E i \in 1 .. Len(log) : log[i] = "glDebugMessageCallback"

\* C2: initGLFW() returns false exactly when glfwInit() reported GLFW_FALSE,
\* initGLAD() returns false exactly when gladLoadGLLoader returned 0, and
\* after either returned false main() only returns 1: no loop iteration, no
\* buffer, vertex array or shader, no swapped frame.
C2_InitFailureExits ==
    /\ (glfwRet = "false") <=> (glfwInitResult = "GLFW_FALSE")
    /\ (gladRet = "false") <=> (gladResult = 0)
    /\ glfwRet = "false" => pc \in {"checkGLFW", "done"}
    /\ gladRet = "false" => pc \in {"checkGLAD", "done"}
    /\ (glfwRet = "false" \/ gladRet = "false") =>
         /\ pc = "done" => exitCode = 1
         /\ frames = 0
         /\ frame = <<>>
         /\ \A o \in GLObjects : heap[o] = "none"
         /\ \A i \in 1 .. Len(log) : log[i] \in NonGLCalls

\* C2 witness: GLFW came up, GLAD did not, and main() has returned 1.
C2_Witness ==
    /\ pc = "done"
    /\ exitCode = 1
    /\ glfwRet = "true"
    /\ gladRet = "false"

\* C3: whenever initGLFW() has returned true, the global window is a created
\* (non-null) window, its context is current and GlfwWindowResizedCallback is
\* registered on it.
C3_WindowValid ==
    glfwRet = "true" =>
      /\ window \notin {"unset", "NULL"}
      /\ contextCurrent = window
      /\ sizeCallback[window] = "GlfwWindowResizedCallback"

\* The vertex array of each mesh of a project, in drawing order.
MeshVao(p) ==
    CASE p = "Week3" -> <<"vao", "vao2">>
      [] p = "Transforms" -> <<"vao", "vao2", "vao3">>
      [] OTHER -> <<"vao4", "vao4">>

\* The transform of each mesh, in drawing order.
MeshTransform == <<"transform", "transform2", "transform3">>

\* C4: every loop iteration starts with one poll, clears once after it, binds
\* the shader after the clear, draws each mesh of the project in order with
\* that mesh's vertex array bound by the call just before the draw (and, with
\* transforms, u_ModelViewProjection uploaded just before that as the camera's
\* view-projection times the mesh's own transform), then unbinds and swaps
\* once, last, with no vertex array bound; no draw precedes the clear or
\* follows the swap.
C4_FrameSequence ==
    LET polls  == Idx(frame, "glfwPollEvents")
        clears == Idx(frame, "glClear")
        binds  == Idx(frame, "Shader::Bind")
        draws  == Idx(frame, "draw")
        swaps  == Idx(frame, "glfwSwapBuffers")
        Rank(d) == Cardinality({e \in draws : e <= d})
    IN  /\ frame # <<>> => polls = {1}
        /\ Cardinality(clears) <= 1
        /\ Cardinality(binds) <= 1
        /\ Cardinality(swaps) <= 1
        /\ \A c \in clears : \A q \in polls : q < c
        /\ \A b \in binds : \E c \in clears : c < b
        /\ \A d \in draws :
             /\ \E b \in binds : b < d
             /\ \A s \in swaps : d < s
             /\ Rank(d) <= Len(MeshVao(project))
             /\ frame[d][4] = MeshVao(project)[Rank(d)]
             /\ frame[d - 1] = <<"VertexArrayObject::Bind", frame[d][4]>>
             /\ frame[d][3] = vaoIndexBuffer[frame[d][4]]
             /\ project # "Week3" =>
                  /\ frame[d - 2] =
                       <<"Shader::SetUniformMatrix", MeshTransform[Rank(d)]>>
                  /\ frame[d][5] =
                       <<CameraGetViewProjection(camera),
                         MeshTransform[Rank(d)],
                         transforms[MeshTransform[Rank(d)]]>>
        /\ \A s \in swaps :
             /\ s = Len(frame)
             /\ frame[s - 1] = <<"VertexArrayObject::Unbind">>
             /\ frame[s][3] = "none"
             /\ Cardinality(draws) = Len(MeshVao(project))
        /\ (frames > 0 /\ pc \in {"loop", "cleanup", "uninit", "done"}) =>
             Cardinality(swaps) = 1

\* C4 witness: the second iteration of the three-mesh project has swapped,
\* after a resize was delivered during its poll.
C4_Witness ==
    /\ project = "Transforms"
    /\ pc = "loop"
    /\ frames = 2
    /\ Idx(frame, "glViewport") # {}
    /\ Idx(frame, "glfwSwapBuffers") # {}

\* C5: windowSize is (800, 800) until the first resize event; after any
\* resize events it is the (width, height) of the last one and the viewport
\* is (0, 0, width, height) of that same event.
C5_WindowSizeTracksResize ==
    /\ lastResize = <<>> => windowSize = <<InitialExtent, InitialExtent>>
    /\ lastResize # <<>> =>
         /\ windowSize = lastResize
         /\ viewport = <<0, 0, lastResize[1], lastResize[2]>>
         /\ <<viewport[3], viewport[4]>> = windowSize

\* C5 witness: the second iteration's poll has delivered two resize events,
\* the last one to a non-square size.
C5_Witness ==
    /\ frames = 1
    /\ pc = "polling"
    /\ polled["resize"] = 2
    /\ lastResize = <<1, 2>>

\* C6: in the Obj project's loop, the input handling flips both the camera's
\* orthographic mode and isButtonPressed when space is reported pressed and
\* leaves them and the camera position unchanged when it is not; no other
\* step of the loop changes them; and when the iteration ends (the swap)
\* isButtonPressed equals the orthographic mode.
C6_SpaceTogglesOrtho ==
    [][(project = "Obj" /\
        pc \in {"loop", "poll", "polling", "input", "update", "clear",
                "bindShader", "draw", "unbind", "swap"}) =>
         /\ (pc = "input" /\ spaceKey) =>
              /\ camera'.ortho = ~camera.ortho
              /\ isButtonPressed' = ~isButtonPressed
         /\ (pc = "input" /\ ~spaceKey) =>
              /\ camera'.ortho = camera.ortho
              /\ camera'.position = camera.position
              /\ isButtonPressed' = isButtonPressed
         /\ pc # "input" => UNCHANGED <<camera, isButtonPressed>>
         /\ pc = "swap" => isButtonPressed' = camera'.ortho]_vars

\* C6 witness: space was held over two iterations, so the projection was
\* switched to orthographic and back.
C6_Witness ==
    /\ project = "Obj"
    /\ pc = "loop"
    /\ frames = 2
    /\ spaceKey
    /\ ~isButtonPressed
    /\ ~camera.ortho
    /\ camera.orthoScale = "-20.0f"

\* C7: when the Week3 main() has returned 0, each of the seven objects it
\* allocated with new has been deleted exactly once, and none was used after
\* its deletion.
C7_AllDeletedOnce ==
    (project = "Week3" /\ pc = "done" /\ exitCode = 0) =>
      /\ \A o \in Week3Objects : heap[o] = "deleted" /\ deletes[o] = 1
      /\ ~usedAfterDelete

====
